---------------------------- MODULE Spec2Model ----------------------------
(***************************************************************************)
(* SparseMemory (src/memory.c, src/memory.h): a demand-paged RAM whose     *)
(* pages live in an open-addressed hash table, with read and write         *)
(* listeners.                                                              *)
(*                                                                         *)
(* Representation.  addr_t is a 32-bit unsigned integer; it is kept as a   *)
(* pair <<hi, lo>> of 16-bit halves so that every intermediate value of    *)
(* the 32-bit arithmetic (hash, masks, subtraction) stays exact.  C arrays *)
(* are sequences: element i of the C array is element i + 1 here.  A NULL  *)
(* data pointer is the empty sequence.                                     *)
(***************************************************************************)
EXTENDS Integers, Sequences, FiniteSets, TLC

(***************************************************************************)
(* Bounds of the model.                                                    *)
(***************************************************************************)
\* The host's memory page holds 2^LogPageSize words of 4 bytes.
LogPageSize == 1
\* Number of public calls made on the RAM in one run.
MaxCalls == 3
\* Length of the array the caller gives to rom_create.
RomLen == 3

(***************************************************************************)
(* 32-bit unsigned arithmetic on <<hi, lo>> pairs.                         *)
(***************************************************************************)
Half == 65536

\* ^ and & on 4-bit digits, bit by bit.
XorDigit ==
  [a \in 0 .. 15 |-> [b \in 0 .. 15 |->
     (((a % 2) + (b % 2)) % 2)
     + 2 * ((((a \div 2) % 2) + ((b \div 2) % 2)) % 2)
     + 4 * ((((a \div 4) % 2) + ((b \div 4) % 2)) % 2)
     + 8 * (((a \div 8) + (b \div 8)) % 2)]]

AndDigit ==
  [a \in 0 .. 15 |-> [b \in 0 .. 15 |->
     ((a % 2) * (b % 2))
     + 2 * (((a \div 2) % 2) * ((b \div 2) % 2))
     + 4 * (((a \div 4) % 2) * ((b \div 4) % 2))
     + 8 * ((a \div 8) * (b \div 8))]]

\* a ^ b, a and b below 2^16.
Xor16(a, b) ==
  XorDigit[a % 16][b % 16]
  + 16 * XorDigit[(a \div 16) % 16][(b \div 16) % 16]
  + 256 * XorDigit[(a \div 256) % 16][(b \div 256) % 16]
  + 4096 * XorDigit[a \div 4096][b \div 4096]

\* a & b, a and b below 2^16.
And16(a, b) ==
  AndDigit[a % 16][b % 16]
  + 16 * AndDigit[(a \div 16) % 16][(b \div 16) % 16]
  + 256 * AndDigit[(a \div 256) % 16][(b \div 256) % 16]
  + 4096 * AndDigit[a \div 4096][b \div 4096]

\* The 32-bit product of two 16-bit numbers a and b, as << hi, lo >>, from
\* lo8 = a * (b % 256) and hi8 = a * (b / 256): a * b = lo8 + 256 * hi8.
Mul16Parts(lo8, hi8) ==
  << (((lo8 + ((hi8 % 256) * 256)) \div Half) + (hi8 \div 256)) % Half,
     (lo8 + ((hi8 % 256) * 256)) % Half >>

Mul16(a, b) == Mul16Parts(a * (b % 256), a * (b \div 256))

\* The low 32 bits of a product whose low partial product is p and whose
\* cross partial products sum to cross.
Mul32Parts(p, cross) == << (p[1] + cross) % Half, p[2] >>

\* x * k modulo 2^32.
Mul32(x, k) ==
  Mul32Parts(Mul16(x[2], k[2]), Mul16(x[1], k[2])[2] + Mul16(x[2], k[1])[2])

\* x - 1 modulo 2^32.
Dec32(x) ==
  IF x[2] > 0 THEN << x[1], x[2] - 1 >>
  ELSE IF x[1] > 0 THEN << x[1] - 1, Half - 1 >>
  ELSE << Half - 1, Half - 1 >>

\* ~x on 32 bits.
Not32(x) == << Half - 1 - x[1], Half - 1 - x[2] >>

\* x & y on 32 bits.
And32(x, y) == << And16(x[1], y[1]), And16(x[2], y[2]) >>

\* x - y modulo 2^32.
Sub32(x, y) ==
  IF x[2] >= y[2]
  THEN << (x[1] - y[1] + Half) % Half, x[2] - y[2] >>
  ELSE << (x[1] - y[1] - 1 + 2 * Half) % Half, x[2] - y[2] + Half >>

\* x <= y, unsigned.
Le32(x, y) == x[1] < y[1] \/ (x[1] = y[1] /\ x[2] <= y[2])

\* The addr_t of a natural number below 2^31, and back.
ToAddr(n) == << n \div Half, n % Half >>
ToNat(x) == (x[1] * Half) + x[2]

(***************************************************************************)
(* hash(): src/memory.c, 158-165.                                          *)
(***************************************************************************)
HashMulHi == 1117
HashMulLo == 40763

\* One round: x = ((x >> 16) ^ x) * 0x45d9f3b.
HashRound(x) ==
  Mul32(<< x[1], Xor16(x[2], x[1]) >>, << HashMulHi, HashMulLo >>)

\* The last line: x = (x >> 16) ^ x.
HashFold(x) == << x[1], Xor16(x[2], x[1]) >>

hash(x) == HashFold(HashRound(HashRound(x)))

(***************************************************************************)
(* The page store: src/memory.c, 84-272.                                   *)
(* A ram_t is a record; ram.buckets[i + 1] is the C buckets[i].            *)
(***************************************************************************)
INITIAL_RAM_HT_SIZE == 64

\* sizeof(word_t).
WordBytes == 4

\* A NULL data pointer, and what calloc() gives: a zeroed bucket, a zeroed page.
NULL == << >>
EmptyBucket == [base_addr |-> << 0, 0 >>, data |-> NULL]
ZeroPage(page_size) == [i \in 1 .. page_size |-> 0]

\* ht_find never returns: its loop has come back to the slot it started from.
Diverges == 0 - 1

\* The bucket the loop of ht_find looks at in its iteration k (k = 0, 1, ...)
\* when it started at bucket `start`: index += 1, and 0 after the last one.
probed(bucket_count, start, k) ==
  IF start + k >= bucket_count THEN start + k - bucket_count ELSE start + k

\* The loop of ht_find ends at bucket index: the bucket is empty (the while
\* condition fails) or holds the key (the return in the loop).
ends_at(buckets, base_addr, index) ==
  \/ buckets[index + 1].data = NULL
  \/ buckets[index + 1].base_addr = base_addr

\* The result of the earlier iterations if one of them ended the loop, else
\* that of the later ones.
first_of(earlier, later) == IF earlier # Diverges THEN earlier ELSE later

RECURSIVE ht_probe(_, _, _, _, _, _)
\* Iterations first .. last - 1 of the while loop of ht_find: the bucket at
\* which the first of them ends the loop, Diverges when none does.  They are
\* looked at in order; the range is halved so that the evaluation nests no
\* deeper than its logarithm.  The loop changes nothing but index, so when
\* bucket_count iterations have not ended it, it repeats them for ever.
ht_probe(buckets, bucket_count, base_addr, start, first, last) ==
  IF last <= first THEN Diverges
  ELSE IF last = first + 1
  THEN (IF ends_at(buckets, base_addr, probed(bucket_count, start, first))
        THEN probed(bucket_count, start, first) ELSE Diverges)
  ELSE first_of(ht_probe(buckets, bucket_count, base_addr, start, first,
                         (first + last) \div 2),
                ht_probe(buckets, bucket_count, base_addr, start,
                         (first + last) \div 2, last))

ht_find(buckets, bucket_count, base_addr) ==
  ht_probe(buckets, bucket_count, base_addr,
           ToNat(And32(hash(base_addr), Dec32(ToAddr(bucket_count)))),
           0, bucket_count)

\* init_ram_page on &ram->buckets[index].
init_ram_page(ram, index, base_addr) ==
  [ram EXCEPT !.buckets[index + 1] =
                 [base_addr |-> base_addr, data |-> ZeroPage(ram.page_size)]]

\* new_pages[j] = *page, j being what ht_find returned; << >> when it did
\* not return.
rehash_put(new_pages, j, page) ==
  IF j = Diverges THEN << >> ELSE [new_pages EXCEPT ![j + 1] = page]

\* One iteration of the rehash loop of get_ram_page: bucket i of the old
\* array is reinserted.
rehash_step(old, new_pages, bucket_count, i) ==
  IF new_pages = << >> \/ old[i + 1].data = NULL THEN new_pages
  ELSE rehash_put(new_pages,
                  ht_find(new_pages, bucket_count, old[i + 1].base_addr),
                  old[i + 1])

RECURSIVE rehash(_, _, _, _, _)
RECURSIVE rehash_rest(_, _, _, _, _)

\* Iterations first .. last - 1 of the for loop of get_ram_page that reinserts
\* the old pages, in order (the range is halved as in ht_probe).  The result
\* is new_pages, or << >> when an ht_find in it does not return.
rehash(old, new_pages, bucket_count, first, last) ==
  IF last <= first THEN new_pages
  ELSE IF last = first + 1
  THEN rehash_step(old, new_pages, bucket_count, first)
  ELSE rehash_rest(old,
                   rehash(old, new_pages, bucket_count, first,
                          (first + last) \div 2),
                   bucket_count, (first + last) \div 2, last)

\* The later half of a range of iterations, new_pages being the outcome of
\* the earlier half.
rehash_rest(old, new_pages, bucket_count, first, last) ==
  IF new_pages = << >> THEN new_pages
  ELSE rehash(old, new_pages, bucket_count, first, last)

\* A base address whose mask is ~ram->page_size.
page_base_masked(ram, addr) == And32(addr, Not32(ToAddr(ram.page_size)))

\* The page's base address: addr & ~(ram->page_size - 1).
page_base(ram, addr) == And32(addr, Not32(Dec32(ToAddr(ram.page_size))))

\* A resize made at every page creation.
resize_always(ram) ==
  [ram EXCEPT
     !.bucket_count = 2 * ram.bucket_count,
     !.buckets = rehash(ram.buckets,
                        [k \in 1 .. 2 * ram.bucket_count |-> EmptyBucket],
                        2 * ram.bucket_count, 0, ram.bucket_count)]

\* The resize of get_ram_page: when page_count == bucket_count the bucket
\* array is replaced by one twice as large holding the same pages.
resize(ram) ==
  IF ram.page_count = ram.bucket_count
  THEN [ram EXCEPT
          !.bucket_count = 2 * ram.bucket_count,
          !.buckets = rehash(ram.buckets,
                             [k \in 1 .. 2 * ram.bucket_count |-> EmptyBucket],
                             2 * ram.bucket_count, 0, ram.bucket_count)]
  ELSE ram

\* A page creation that puts the page in the bucket after the free one.
create_page_after(resized, index, base_addr) ==
  [hung |-> FALSE,
   ram |-> [init_ram_page(resized, probed(resized.bucket_count, index, 1),
                          base_addr)
              EXCEPT !.page_count = resized.page_count + 1],
   index |-> probed(resized.bucket_count, index, 1)]

\* A page creation that does not count the new page.
create_page_uncounted(resized, index, base_addr) ==
  [hung |-> FALSE,
   ram |-> init_ram_page(resized, index, base_addr),
   index |-> index]

\* A page creation that counts the new page twice.
create_page_twice(resized, index, base_addr) ==
  [hung |-> FALSE,
   ram |-> [init_ram_page(resized, index, base_addr)
              EXCEPT !.page_count = resized.page_count + 2],
   index |-> index]

\* The end of get_ram_page: the page is created in bucket `index` of the
\* (possibly resized) array, index being the one found before the resize.
create_page(resized, index, base_addr) ==
  IF resized.buckets = << >>
  THEN [hung |-> TRUE, ram |-> resized, index |-> index]
  ELSE [hung |-> FALSE,
        ram |-> [init_ram_page(resized, index, base_addr)
                   EXCEPT !.page_count = resized.page_count + 1],
        index |-> index]

\* A get_ram_page that creates the page without looking at the bucket found.
lookup_page_blind(ram, base_addr, index) ==
  IF index = Diverges
  THEN [hung |-> TRUE, ram |-> ram, index |-> index]
  ELSE create_page(resize(ram), index, base_addr)

\* get_ram_page once ht_find has given index (or has not returned).
lookup_page(ram, base_addr, index) ==
  IF index = Diverges
  THEN [hung |-> TRUE, ram |-> ram, index |-> index]
  ELSE IF ram.buckets[index + 1].base_addr = base_addr
  THEN [hung |-> FALSE, ram |-> ram, index |-> index]
  ELSE create_page(resize(ram), index, base_addr)

\* get_ram_page for the page of base address base_addr.
page_of_base(ram, base_addr) ==
  lookup_page(ram, base_addr,
              ht_find(ram.buckets, ram.bucket_count, base_addr))

\* get_ram_page: [hung, ram, index]: whether the call never returns, the RAM
\* it leaves, and the bucket the returned pointer designates in ram.buckets.
get_ram_page(ram, addr) == page_of_base(ram, page_base(ram, addr))

\* A ram_t whose first page is not counted.
new_ram_uncounted(os_memory_page) ==
  [buckets |-> [k \in 1 .. INITIAL_RAM_HT_SIZE |-> EmptyBucket],
   bucket_count |-> INITIAL_RAM_HT_SIZE,
   page_count |-> 0,
   read_listener |-> << >>,
   write_listener |-> << >>,
   page_size |-> os_memory_page \div WordBytes]

\* The ram_t that ram_create allocates, before its first page is made.
new_ram(os_memory_page) ==
  [buckets |-> [k \in 1 .. INITIAL_RAM_HT_SIZE |-> EmptyBucket],
   bucket_count |-> INITIAL_RAM_HT_SIZE,
   page_count |-> 1,
   read_listener |-> << >>,
   write_listener |-> << >>,
   page_size |-> os_memory_page \div WordBytes]

\* A ram_create that makes no first page.
first_page_missing(ram) == ram

first_page(ram) ==
  init_ram_page(ram, ht_find(ram.buckets, ram.bucket_count, << 0, 0 >>),
                << 0, 0 >>)

\* ram_create, on a host whose get_os_memory_page() is os_memory_page bytes.
ram_create(os_memory_page) == first_page(new_ram(os_memory_page))

(***************************************************************************)
(* Listeners: src/memory.c, 119-133, 334-354, 379-423.                     *)
(* A callback is an opaque function pointer; what it does is recorded as   *)
(* an event: which callback ran, with which arguments, and the word the    *)
(* RAM held at the accessed address at that moment.                        *)
(***************************************************************************)
\* page->data[addr - page->base_addr].
page_word(page, addr) == page.data[ToNat(Sub32(addr, page.base_addr)) + 1]

\* The word stored at addr; the page of addr exists.
word_at(ram, addr) ==
  page_word(ram.buckets[ht_find(ram.buckets, ram.bucket_count,
                                page_base(ram, addr)) + 1], addr)

\* addr >= it->addr_low && addr <= it->addr_high.
in_range(it, addr) == Le32(it.addr_low, addr) /\ Le32(addr, it.addr_high)

RECURSIVE read_walk(_, _, _, _)
\* The while loop of handle_read_listeners, `it` being the i-th listener;
\* word is what the RAM holds at addr.
read_walk(list, i, addr, word) ==
  IF i > Len(list) THEN << >>
  ELSE (IF in_range(list[i], addr)
        THEN << [kind |-> "read", callback |-> list[i].callback,
                 addr |-> addr, value |-> 0, word |-> word] >>
        ELSE << >>)
       \o read_walk(list, i + 1, addr, word)

handle_read_listeners(ram, addr) ==
  read_walk(ram.read_listener, 1, addr, word_at(ram, addr))

RECURSIVE write_walk(_, _, _, _, _)
\* The while loop of handle_write_listeners, `it` being the i-th listener;
\* word is what the RAM holds at addr.
write_walk(list, i, addr, new_word, word) ==
  IF i > Len(list) THEN << >>
  ELSE (IF in_range(list[i], addr)
        THEN << [kind |-> "write", callback |-> list[i].callback,
                 addr |-> addr, value |-> new_word, word |-> word] >>
        ELSE << >>)
       \o write_walk(list, i + 1, addr, new_word, word)

handle_write_listeners(ram, addr, new_word) ==
  write_walk(ram.write_listener, 1, addr, new_word, word_at(ram, addr))

\* The new listener, linked after the last one of the list.
listener(addr_low, addr_high, callback) ==
  [callback |-> callback, addr_low |-> addr_low, addr_high |-> addr_high]

ram_install_read_listener(ram, addr_low, addr_high, callback) ==
  [ram EXCEPT !.read_listener =
                 Append(@, listener(addr_low, addr_high, callback))]

\* An install that links the new listener at the head of the list.
ram_push_write_listener(ram, addr_low, addr_high, callback) ==
  [ram EXCEPT !.write_listener =
                 << listener(addr_low, addr_high, callback) >> \o @]

ram_install_write_listener(ram, addr_low, addr_high, callback) ==
  [ram EXCEPT !.write_listener =
                 Append(@, listener(addr_low, addr_high, callback))]

(***************************************************************************)
(* The facade: src/memory.c, 274-298, 356-376.                             *)
(* Each operation yields [hung, ram, ret, events]: whether the call never  *)
(* returns, the RAM it leaves, the word it returns and the callbacks it    *)
(* ran, in order.  `page` is what get_ram_page gave.                       *)
(***************************************************************************)
\* A store that forgets the offset of addr in its page: page->data[0] = value.
store_at_base(ram, index, addr, value) ==
  [ram EXCEPT !.buckets[index + 1].data[1] = value]

\* page->data[addr - page->base_addr] = value, page being &ram->buckets[index].
store(ram, index, addr, value) ==
  [ram EXCEPT !.buckets[index + 1].data[
     ToNat(Sub32(addr, ram.buckets[index + 1].base_addr)) + 1] = value]

\* page->data[addr - page->base_addr], page being &ram->buckets[index].
load(ram, index, addr) == page_word(ram.buckets[index + 1], addr)

\* A call that does not return: it stays in get_ram_page.
never_returns(ram) ==
  [hung |-> TRUE, ram |-> ram, ret |-> 0, events |-> << >>]

ram_get_in(page, addr) ==
  IF page.hung THEN never_returns(page.ram)
  ELSE [hung |-> FALSE, ram |-> page.ram,
        events |-> handle_read_listeners(page.ram, addr),
        ret |-> load(page.ram, page.index, addr)]

ram_get(ram, addr) == ram_get_in(get_ram_page(ram, addr), addr)

\* ram_set after its store: the write listeners run on the RAM written.
ram_set_notify(written, addr, value) ==
  [hung |-> FALSE, ram |-> written,
   events |-> handle_write_listeners(written, addr, value), ret |-> 0]

ram_set_in(page, addr, value) ==
  IF page.hung THEN never_returns(page.ram)
  ELSE ram_set_notify(store(page.ram, page.index, addr, value), addr, value)

ram_set(ram, addr, value) == ram_set_in(get_ram_page(ram, addr), addr, value)

\* A ram_get_set whose write listeners run before its read listeners.
ram_get_set_notify_swapped(reads, old_value, written, addr, value) ==
  [hung |-> FALSE, ram |-> written,
   events |-> handle_write_listeners(written, addr, value) \o reads,
   ret |-> old_value]

\* ram_get_set after its store: reads are the callbacks handle_read_listeners
\* ran before the store, old_value the word read before it.
ram_get_set_notify(reads, old_value, written, addr, value) ==
  [hung |-> FALSE, ram |-> written,
   events |-> reads \o handle_write_listeners(written, addr, value),
   ret |-> old_value]

\* A ram_get_set whose read listeners run after its store.
ram_get_set_in_late(page, addr, value) ==
  IF page.hung THEN never_returns(page.ram)
  ELSE ram_get_set_notify(
         handle_read_listeners(store(page.ram, page.index, addr, value),
                               addr),
         load(page.ram, page.index, addr),
         store(page.ram, page.index, addr, value),
         addr, value)

ram_get_set_in(page, addr, value) ==
  IF page.hung THEN never_returns(page.ram)
  ELSE ram_get_set_notify(handle_read_listeners(page.ram, addr),
                          load(page.ram, page.index, addr),
                          store(page.ram, page.index, addr, value),
                          addr, value)

ram_get_set(ram, addr, value) ==
  ram_get_set_in(get_ram_page(ram, addr), addr, value)

\* words_to_copy of ram_init.
words_to_copy(ram, data_len, base_address) ==
  IF data_len - base_address < ram.page_size
  THEN data_len - base_address ELSE ram.page_size

\* memcpy(page->data, data + base_address, sizeof(word_t) * count), page
\* being &ram->buckets[index].
copy_words(ram, index, data, base_address, count) ==
  [ram EXCEPT !.buckets[index + 1].data =
     [k \in 1 .. ram.page_size |->
        IF k <= count THEN data[base_address + k] ELSE @[k]]]

\* One iteration of ram_init's loop once get_ram_page has given `page`: the
\* memcpy.  ret is the number of words of data copied so far.
init_copy(page, data, data_len, base_address) ==
  IF page.hung
  THEN [hung |-> TRUE, ram |-> page.ram, ret |-> base_address,
        events |-> << >>]
  ELSE [hung |-> FALSE,
        ram |-> copy_words(page.ram, page.index, data, base_address,
                           words_to_copy(page.ram, data_len, base_address)),
        ret |-> base_address
                + words_to_copy(page.ram, data_len, base_address),
        events |-> << >>]

\* One iteration of ram_init's loop, from the outcome `done` of the ones
\* before it: nothing more happens once a get_ram_page has not returned.
init_step(done, data, data_len, base_address) ==
  IF done.hung \/ ~ (base_address < data_len) THEN done
  ELSE init_copy(get_ram_page(done.ram, ToAddr(base_address)), data,
                 data_len, base_address)

RECURSIVE init_loop(_, _, _, _, _)
RECURSIVE init_rest(_, _, _, _, _)

\* Iterations first .. last - 1 of ram_init's loop, iteration k being the one
\* entered with base_address = k * page_size.  They run in order; the range
\* is halved so that the evaluation nests no deeper than its logarithm.
init_loop(done, data, data_len, first, last) ==
  IF last <= first THEN done
  ELSE IF last = first + 1
  THEN init_step(done, data, data_len, first * done.ram.page_size)
  ELSE init_rest(init_loop(done, data, data_len, first,
                           (first + last) \div 2),
                 data, data_len, (first + last) \div 2, last)

\* The later half of a range of iterations, `done` being the outcome of the
\* earlier half.
init_rest(done, data, data_len, first, last) ==
  IF done.hung THEN done ELSE init_loop(done, data, data_len, first, last)

\* The number of times ram_init's loop finds base_address < data_len.
init_iterations(ram, data_len) ==
  (data_len + ram.page_size - 1) \div ram.page_size

ram_init(ram, data, data_len) ==
  init_loop([hung |-> FALSE, ram |-> ram, ret |-> 0, events |-> << >>],
            data, data_len, 0, init_iterations(ram, data_len))

\* ram_from_file on a file that read_file reads as data_len words.
ram_from_file(os_memory_page, data, data_len) ==
  ram_init(ram_create(os_memory_page), data, data_len)

(***************************************************************************)
(* The ROM: src/memory.c, 436-456, src/memory.h, 74-85.                    *)
(* C buffers live in a heap, a function from buffer names to sequences of  *)
(* words; a pointer is the name of its buffer.  A rom_t is a record of one *)
(* pointer.                                                                *)
(***************************************************************************)
\* The caller's array, the buffer rom_create allocates, and no buffer.
CallerData == "data"
RomData == "rom_data"
NoBuffer == "NULL"

\* memcpy(dst, src, sizeof(word_t) * data_len) into a fresh buffer dst.
copy_buffer(heap, dst, src, data_len) ==
  [heap EXCEPT ![dst] = [i \in 1 .. data_len |-> heap[src][i]]]

\* A rom_create that keeps the caller's pointer: rom.data = data.
rom_create_shared(heap, data, data_len) ==
  [rom |-> [data |-> data], heap |-> heap]

\* rom_create: the rom_t it returns and the heap it leaves.
rom_create(heap, data, data_len) ==
  [rom |-> [data |-> RomData],
   heap |-> copy_buffer(heap, RomData, data, data_len)]

\* rom.data[addr].
rom_get(heap, rom, addr) == heap[rom.data][addr + 1]

(***************************************************************************)
(* The screen: src/screen.c, src/screen.h.                                 *)
(* The terminal is a record: out, what the last screen call printed, a     *)
(* sequence of commands [cmd, args] (cmd "H" is the cursor move            *)
(* ESC[row;colH, cmd "m" the SGR command ESC[...m); failed, the assertion  *)
(* that stopped the program, "none" while it runs.  A styled character is  *)
(* a natural number below 2^31.                                            *)
(***************************************************************************)
SCREEN_WIDTH == 64
SCREEN_HEIGHT == 16
SCREEN_SIZE == SCREEN_WIDTH * SCREEN_HEIGHT
SCREEN_BASE_ADDR == 0

Command(cmd, args) == [cmd |-> cmd, args |-> args]
Printed(out) == [failed |-> "none", out |-> out]
AssertFailed(assertion) == [failed |-> assertion, out |-> << >>]

\* The value a colour variable holds when its assert(0) is reached.
InvalidColor == 0 - 1

\* The bit of styled_char that has the given weight (a power of two).
flag(styled_char, weight) == (styled_char \div weight) % 2 = 1

\* The if chain on fg_color.
fg_code(fg_color) ==
  IF fg_color = 0 THEN 39
  ELSE IF fg_color <= 9 THEN (fg_color - 1) + 30
  ELSE IF fg_color <= 16 THEN 90 + (fg_color - 9)
  ELSE InvalidColor

\* The if chain on bg_color.
bg_code(bg_color) ==
  IF bg_color = 0 THEN 49
  ELSE IF bg_color <= 9 THEN (bg_color - 1) + 40
  ELSE IF bg_color <= 16 THEN 100 + (bg_color - 9)
  ELSE InvalidColor

\* What style_buffer holds: the codes of the style attributes set.
style_buffer(styled_char) ==
  (IF flag(styled_char, 2 ^ 18) THEN << 1 >> ELSE << >>)
  \o (IF flag(styled_char, 2 ^ 19) THEN << 2 >> ELSE << >>)
  \o (IF flag(styled_char, 2 ^ 20) THEN << 3 >> ELSE << >>)
  \o (IF flag(styled_char, 2 ^ 21) THEN << 4 >> ELSE << >>)
  \o (IF flag(styled_char, 2 ^ 22) THEN << 5 >> ELSE << >>)
  \o (IF flag(styled_char, 2 ^ 23) THEN << 8 >> ELSE << >>)
  \o (IF flag(styled_char, 2 ^ 24) THEN << 9 >> ELSE << >>)
  \o (IF flag(styled_char, 2 ^ 25) THEN << 53 >> ELSE << >>)

\* What screen_put_character prints once x and y have passed its assertions,
\* sgr being the SGR command of the styling (none for a plain character).
put_output(x, y, styled_char, sgr) ==
  Printed(<< Command("s", << >>), Command("H", << y + 1, x + 1 >>) >>
          \o sgr
          \o << Command("putchar", << styled_char % 128 >>),
                Command("m", << 0 >>), Command("u", << >>) >>)

\* The styling block of screen_put_character, fg and bg being the codes of
\* the two colours.
put_styled(x, y, styled_char, fg, bg) ==
  IF fg = InvalidColor THEN AssertFailed("invalid fg color")
  ELSE IF bg = InvalidColor THEN AssertFailed("invalid bg color")
  ELSE put_output(x, y, styled_char,
                  << Command("m", << 0, fg, bg >>
                                   \o style_buffer(styled_char)) >>)

screen_put_character(x, y, styled_char) ==
  IF ~ (x < SCREEN_WIDTH) THEN AssertFailed("x < SCREEN_WIDTH")
  ELSE IF ~ (y < SCREEN_HEIGHT) THEN AssertFailed("y < SCREEN_HEIGHT")
  ELSE IF styled_char \div 128 # 0
  THEN put_styled(x, y, styled_char,
                  fg_code((styled_char \div 256) % 32),
                  bg_code((styled_char \div 8192) % 32))
  ELSE put_output(x, y, styled_char, << >>)

\* The last address of the screen memory.
screen_last == ToAddr(SCREEN_BASE_ADDR + SCREEN_SIZE - 1)

\* screen_ram_write past its assertion, offset being addr - SCREEN_BASE_ADDR.
screen_ram_write_at(offset, new_word) ==
  screen_put_character(offset % SCREEN_WIDTH, offset \div SCREEN_WIDTH,
                       new_word)

screen_ram_write(addr, new_word) ==
  IF ~ (Le32(ToAddr(SCREEN_BASE_ADDR), addr) /\ Le32(addr, screen_last))
  THEN AssertFailed("addr in the screen memory")
  ELSE screen_ram_write_at(ToNat(Sub32(addr, ToAddr(SCREEN_BASE_ADDR))),
                           new_word)

\* What screen_init prints: hide the cursor, clear, place the cursor.
screen_init ==
  Printed(<< Command("?25l", << >>), Command("2J", << >>),
             Command("H", << 17, 1 >>) >>)

\* A mapping whose interval excludes no end point of
\* [SCREEN_BASE_ADDR; SCREEN_BASE_ADDR + SCREEN_SIZE].
screen_init_with_ram_mapping_wide(ram) ==
  ram_install_write_listener(ram, ToAddr(SCREEN_BASE_ADDR),
                             ToAddr(SCREEN_BASE_ADDR + SCREEN_SIZE),
                             "screen_ram_write")

\* The ram screen_init_with_ram_mapping leaves.
screen_init_with_ram_mapping(ram) ==
  ram_install_write_listener(ram, ToAddr(SCREEN_BASE_ADDR), screen_last,
                             "screen_ram_write")

\* it->callback(...) of the listener loops: the call of one listener.  The
\* callbacks other than screen_ram_write print nothing.
callback_run(screen, event) ==
  IF event.callback = "screen_ram_write"
  THEN screen_ram_write(event.addr, event.value)
  ELSE screen

RECURSIVE run_callbacks(_, _, _)
\* The callbacks of evs, from the i-th on, are run in order until one stops
\* the program: the terminal they leave and the ones that were called.
run_callbacks(done, evs, i) ==
  IF i > Len(evs) \/ done.screen.failed # "none" THEN done
  ELSE run_callbacks([screen |-> callback_run(done.screen, evs[i]),
                      events |-> Append(done.events, evs[i])],
                     evs, i + 1)

(***************************************************************************)
(* The host and the inputs of the calls.                                   *)
(***************************************************************************)
\* What get_os_memory_page() returns, and the page size in words it gives.
get_os_memory_page == WordBytes * (2 ^ LogPageSize)
P == get_os_memory_page \div WordBytes

MaxAddr == << Half - 1, Half - 1 >>

\* Address 0, the last word of page 0, the first word of page 1, the first
\* word past INITIAL_RAM_HT_SIZE pages, 2^32 - 1.
Addrs == { << 0, 0 >>, ToAddr(P - 1), ToAddr(P),
           ToAddr(INITIAL_RAM_HT_SIZE * P), MaxAddr }

Words == { 1, 2 }

\* The host page size get_os_memory_page() falls back to, in bytes.
DefaultOsPage == 4096

\* The first word of the screen memory, the first word of its second row,
\* its last word, the first word past the screen, 2^32 - 1.
ScreenAddrs == { ToAddr(SCREEN_BASE_ADDR),
                 ToAddr(SCREEN_BASE_ADDR + SCREEN_WIDTH),
                 screen_last,
                 ToAddr(SCREEN_BASE_ADDR + SCREEN_SIZE),
                 MaxAddr }

\* A styled character: ASCII code, colour indices, style flags (bits 18..25
\* of the word, as a number below 2^8).
styled(ch, fg_color, bg_color, style) ==
  ch + (256 * fg_color) + (8192 * bg_color) + ((2 ^ 18) * style)

Letter == 65
ColorIndexes == 0 .. 31

\* The words the RAM accesses write to the screen memory: a plain letter, a
\* red bold underlined one, one of an invalid colour.
ScreenWords == { Letter, styled(Letter, 2, 0, 9), styled(Letter, 17, 0, 0) }

\* The words given to screen_put_character: every colour index, as
\* foreground and background; the default colours with a style; an invalid
\* background on a valid foreground.
PutWords == { styled(Letter, c, c, 0) : c \in ColorIndexes }
            \cup { styled(Letter, 0, 0, 1), styled(Letter, 1, 17, 0) }

\* The positions given to screen_put_character: the last cell, and just
\* outside the screen.
PutAt == { << SCREEN_WIDTH - 1, SCREEN_HEIGHT - 1 >>,
           << SCREEN_WIDTH, 0 >>, << 0, SCREEN_HEIGHT >> }

\* The addresses whose last write the state records.
Tracked == Addrs \cup ScreenAddrs

\* Listener ranges [lo, hi]; they overlap at the first word of page 1.
Ranges == { << ToAddr(P - 1), ToAddr(P) >>, << ToAddr(P), MaxAddr >> }

Callbacks == { "f", "g" }

\* Word i of a boot image is 1 + i mod 3.
InitData(data_len) == [i \in 1 .. data_len |-> 1 + ((i - 1) % 3)]

\* ram_init on a live RAM: an image that ends inside page 1.
InitLens == { P + 1 }

\* ram_from_file: images that leave one bucket empty, that fill every bucket,
\* and that need one page more than there are buckets.
FileLens == { (INITIAL_RAM_HT_SIZE - 1) * P,
              INITIAL_RAM_HT_SIZE * P,
              (INITIAL_RAM_HT_SIZE * P) + 1 }

(***************************************************************************)
(* The state: the RAM; the last call made on it with its outcome; the      *)
(* callbacks that call ran; for each address of Addrs, the last write made *)
(* to it; the listeners in the order the caller installed them.            *)
(***************************************************************************)
VARIABLES ram, call, events, shadow, installs, ncalls, rom, heap, screen

vars == << ram, call, events, shadow, installs, ncalls, rom, heap, screen >>

\* The last write to an address: the operation, the word, and the number of
\* pages the RAM had when the operation returned.
NotWritten == [by |-> "none", value |-> 0, pages |-> 0]

Written(by, value, res) ==
  [by |-> by, value |-> value, pages |-> res.ram.page_count]

\* What a ram_init that copied res.ret words of data wrote to the addresses
\* of Addrs.
InitShadow(old, data, res) ==
  [a \in Tracked |->
     IF a[1] = 0 /\ a[2] < res.ret
     THEN Written("ram_init", data[a[2] + 1], res)
     ELSE old[a]]

\* The record of a call made on a RAM of `before` pages: hung when it never
\* returns, ret its result, created the number of pages it added.
Called(op, addr, value, res, before) ==
  [op |-> op, addr |-> addr, value |-> value, hung |-> res.hung,
   ret |-> res.ret, created |-> res.ram.page_count - before]

InitCreate ==
  /\ ram = ram_create(get_os_memory_page)
  /\ call = [op |-> "ram_create", addr |-> << 0, 0 >>, value |-> 0,
             hung |-> FALSE, ret |-> 0, created |-> 1]
  /\ shadow = [a \in Tracked |-> NotWritten]

InitFromFile(data_len) ==
  \E res \in { ram_from_file(get_os_memory_page, InitData(data_len),
                             data_len) } :
    /\ ram = res.ram
    /\ call = Called("ram_from_file", << 0, 0 >>, data_len, res, 0)
    /\ shadow = InitShadow([a \in Tracked |-> NotWritten], InitData(data_len),
                           res)

\* No ROM is created, no buffer allocated, nothing printed.
NoRom == [data |-> NoBuffer]
NoHeap == [buffer \in { CallerData, RomData } |-> << >>]
ScreenOff == Printed(<< >>)

\* No call was made yet after the creation of the RAM.
InitCalls ==
  /\ events = << >>
  /\ installs = [read |-> << >>, write |-> << >>]
  /\ ncalls = 0

Init ==
  /\ InitCreate \/ \E data_len \in FileLens : InitFromFile(data_len)
  /\ InitCalls
  /\ rom = NoRom
  /\ heap = NoHeap
  /\ screen = ScreenOff

\* A call can be made: the previous one returned and no assertion has stopped
\* the program.
CanCall == ~ call.hung /\ screen.failed = "none" /\ ncalls < MaxCalls

RamGet(addr) ==
  /\ CanCall
  /\ \E res \in { ram_get(ram, addr) } :
       /\ ram' = res.ram
       /\ call' = Called("ram_get", addr, 0, res, ram.page_count)
       /\ \E ran \in { run_callbacks([screen |-> screen, events |-> << >>],
                                     res.events, 1) } :
            events' = ran.events /\ screen' = ran.screen
  /\ ncalls' = ncalls + 1
  /\ UNCHANGED << shadow, installs, rom, heap >>

RamSet(addr, value) ==
  /\ CanCall
  /\ \E res \in { ram_set(ram, addr, value) } :
       /\ ram' = res.ram
       /\ call' = Called("ram_set", addr, value, res, ram.page_count)
       /\ \E ran \in { run_callbacks([screen |-> screen, events |-> << >>],
                                     res.events, 1) } :
            events' = ran.events /\ screen' = ran.screen
       /\ shadow' = IF res.hung THEN shadow
                    ELSE [shadow EXCEPT
                            ![addr] = Written("ram_set", value, res)]
  /\ ncalls' = ncalls + 1
  /\ UNCHANGED << installs, rom, heap >>

RamGetSet(addr, value) ==
  /\ CanCall
  /\ \E res \in { ram_get_set(ram, addr, value) } :
       /\ ram' = res.ram
       /\ call' = Called("ram_get_set", addr, value, res, ram.page_count)
       /\ \E ran \in { run_callbacks([screen |-> screen, events |-> << >>],
                                     res.events, 1) } :
            events' = ran.events /\ screen' = ran.screen
       /\ shadow' = IF res.hung THEN shadow
                    ELSE [shadow EXCEPT
                            ![addr] = Written("ram_get_set", value, res)]
  /\ ncalls' = ncalls + 1
  /\ UNCHANGED << installs, rom, heap >>

RamInit(data_len) ==
  /\ CanCall
  /\ \E res \in { ram_init(ram, InitData(data_len), data_len) } :
       /\ ram' = res.ram
       /\ call' = Called("ram_init", << 0, 0 >>, data_len, res,
                         ram.page_count)
       /\ events' = res.events
       /\ shadow' = InitShadow(shadow, InitData(data_len), res)
  /\ ncalls' = ncalls + 1
  /\ UNCHANGED << installs, rom, heap, screen >>

InstallRead(range, callback) ==
  /\ CanCall
  /\ ram' = ram_install_read_listener(ram, range[1], range[2], callback)
  /\ call' = [op |-> "ram_install_read_listener", addr |-> range[1],
              value |-> 0, hung |-> FALSE, ret |-> 0, created |-> 0]
  /\ events' = << >>
  /\ installs' = [installs EXCEPT
                    !.read = Append(@, << range[1], range[2], callback >>)]
  /\ ncalls' = ncalls + 1
  /\ UNCHANGED << shadow, rom, heap, screen >>

InstallWrite(range, callback) ==
  /\ CanCall
  /\ ram' = ram_install_write_listener(ram, range[1], range[2], callback)
  /\ call' = [op |-> "ram_install_write_listener", addr |-> range[1],
              value |-> 0, hung |-> FALSE, ret |-> 0, created |-> 0]
  /\ events' = << >>
  /\ installs' = [installs EXCEPT
                    !.write = Append(@, << range[1], range[2], callback >>)]
  /\ ncalls' = ncalls + 1
  /\ UNCHANGED << shadow, rom, heap, screen >>

Next ==
  \/ \E addr \in Addrs : RamGet(addr)
  \/ \E addr \in Addrs, value \in Words : RamSet(addr, value)
  \/ \E addr \in Addrs, value \in Words : RamGetSet(addr, value)
  \/ \E data_len \in InitLens : RamInit(data_len)
  \/ \E range \in Ranges, callback \in Callbacks : InstallRead(range, callback)
  \/ \E range \in Ranges, callback \in Callbacks : InstallWrite(range, callback)

Spec == Init /\ [][Next]_vars

(***************************************************************************)
(* The ROM and its caller: the caller owns an array of RomLen words, makes *)
(* a ROM of its first data_len words, reads the ROM, and writes to its     *)
(* array.                                                                  *)
(***************************************************************************)
RomWords == { 1, 2 }

\* The record of a call that is not a RAM access.
OtherCall(op, addr, value, ret) ==
  [op |-> op, addr |-> addr, value |-> value, hung |-> FALSE, ret |-> ret,
   created |-> 0]

InitRom ==
  /\ InitCreate
  /\ InitCalls
  /\ rom = NoRom
  /\ \E data \in [1 .. RomLen -> RomWords] :
       heap = [NoHeap EXCEPT ![CallerData] = data]
  /\ screen = ScreenOff

RomCreate(data_len) ==
  /\ CanCall
  /\ rom = NoRom
  /\ \E res \in { rom_create(heap, CallerData, data_len) } :
       rom' = res.rom /\ heap' = res.heap
  /\ call' = OtherCall("rom_create", << 0, 0 >>, data_len, 0)
  /\ ncalls' = ncalls + 1
  /\ UNCHANGED << ram, events, shadow, installs, screen >>

\* rom_get at an address inside the ROM.
RomGet(addr) ==
  /\ CanCall
  /\ rom # NoRom
  /\ addr < Len(heap[rom.data])
  /\ call' = OtherCall("rom_get", ToAddr(addr), 0, rom_get(heap, rom, addr))
  /\ ncalls' = ncalls + 1
  /\ UNCHANGED << ram, events, shadow, installs, rom, heap, screen >>

\* The caller's data[addr] = value.
CallerWrites(addr, value) ==
  /\ CanCall
  /\ heap' = [heap EXCEPT ![CallerData][addr + 1] = value]
  /\ call' = OtherCall("caller_write", ToAddr(addr), value, 0)
  /\ ncalls' = ncalls + 1
  /\ UNCHANGED << ram, events, shadow, installs, rom, screen >>

NextRom ==
  \/ \E data_len \in 1 .. RomLen : RomCreate(data_len)
  \/ \E addr \in 0 .. RomLen - 1 : RomGet(addr)
  \/ \E addr \in 0 .. RomLen - 1, value \in RomWords :
       CallerWrites(addr, value)

SpecRom == InitRom /\ [][NextRom]_vars

(***************************************************************************)
(* The screen and its client: the RAM of a host of 4096-byte pages, mapped *)
(* to the screen or not, written through ram_set and ram_get_set, and the  *)
(* direct calls of screen_put_character.                                   *)
(***************************************************************************)
InitScreen ==
  /\ ram = ram_create(DefaultOsPage)
  /\ call = OtherCall("ram_create", << 0, 0 >>, 0, 0)
  /\ shadow = [a \in Tracked |-> NotWritten]
  /\ InitCalls
  /\ rom = NoRom
  /\ heap = NoHeap
  /\ screen = ScreenOff

ScreenInitWithRamMapping ==
  /\ CanCall
  /\ installs.write = << >>
  /\ screen' = screen_init
  /\ ram' = screen_init_with_ram_mapping(ram)
  /\ call' = OtherCall("screen_init_with_ram_mapping", << 0, 0 >>, 0, 0)
  /\ events' = << >>
  /\ installs' = [installs EXCEPT
                    !.write = Append(@, << ToAddr(SCREEN_BASE_ADDR), screen_last,
                                           "screen_ram_write" >>)]
  /\ ncalls' = ncalls + 1
  /\ UNCHANGED << shadow, rom, heap >>

ScreenPutCharacter(x, y, styled_char) ==
  /\ CanCall
  /\ screen' = screen_put_character(x, y, styled_char)
  /\ call' = OtherCall("screen_put_character", << x, y >>, styled_char, 0)
  /\ events' = << >>
  /\ ncalls' = ncalls + 1
  /\ UNCHANGED << ram, shadow, installs, rom, heap >>

NextScreen ==
  \/ ScreenInitWithRamMapping
  \/ \E addr \in ScreenAddrs, value \in ScreenWords : RamSet(addr, value)
  \/ \E addr \in ScreenAddrs, value \in ScreenWords : RamGetSet(addr, value)
  \/ \E at \in PutAt, styled_char \in PutWords :
       ScreenPutCharacter(at[1], at[2], styled_char)

SpecScreen == InitScreen /\ [][NextScreen]_vars

(***************************************************************************)
(* RamTest.many_access: on the RAM of a host of 4096-byte pages, ram_set(i, *)
(* i) for i = 52, 52 + 1284852, ... while i < 47483647, and the ram_get(i) *)
(* of the addresses written.  ncalls counts the writes made; a read is     *)
(* made at any moment after the write of its address.                      *)
(***************************************************************************)
ManyFirst == 52
ManyStep == 1284852
ManyLimit == 47483647

\* The value of i in iteration k (k = 0, 1, ...) of the loops.
ManyIndex(k) == ManyFirst + (k * ManyStep)

InitMany ==
  /\ ram = ram_create(DefaultOsPage)
  /\ call = OtherCall("ram_create", << 0, 0 >>, 0, 0)
  /\ shadow = [a \in Tracked |-> NotWritten]
  /\ InitCalls
  /\ rom = NoRom
  /\ heap = NoHeap
  /\ screen = ScreenOff

ManySet ==
  /\ ~ call.hung
  /\ ManyIndex(ncalls) < ManyLimit
  /\ \E res \in { ram_set(ram, ToAddr(ManyIndex(ncalls)),
                           ManyIndex(ncalls)) } :
       /\ ram' = res.ram
       /\ call' = Called("ram_set", ToAddr(ManyIndex(ncalls)),
                         ManyIndex(ncalls), res, ram.page_count)
       /\ events' = res.events
  /\ ncalls' = ncalls + 1
  /\ UNCHANGED << shadow, installs, rom, heap, screen >>

ManyGet(k) ==
  /\ ~ call.hung
  /\ k < ncalls
  /\ \E res \in { ram_get(ram, ToAddr(ManyIndex(k))) } :
       /\ ram' = res.ram
       /\ call' = Called("ram_get", ToAddr(ManyIndex(k)), 0, res,
                         ram.page_count)
       /\ events' = res.events
  /\ UNCHANGED << shadow, installs, ncalls, rom, heap, screen >>

NextMany ==
  \/ ManySet
  \/ \E k \in 0 .. (ManyLimit \div ManyStep) : ManyGet(k)

SpecMany == InitMany /\ [][NextMany]_vars

(***************************************************************************)
(* What the properties below observe.                                      *)
(***************************************************************************)
Returned(op) == call.op = op /\ ~ call.hung

\* The step is a call of op; the step is a call of op that returned.
Calls(op) == call'.op = op /\ ncalls' # ncalls
Returns(op) == Calls(op) /\ ~ call'.hung

\* The events of one kind among evs, and the callbacks they ran, in order.
OfKind(evs, kind) == SelectSeq(evs, LAMBDA e : e.kind = kind)
CallbacksOf(evs, kind) ==
  [i \in 1 .. Len(OfKind(evs, kind)) |-> OfKind(evs, kind)[i].callback]

\* How many times callback ran as a listener of that kind.
Fired(evs, kind, callback) ==
  Cardinality({ i \in 1 .. Len(evs) :
                  evs[i].kind = kind /\ evs[i].callback = callback })

\* An installed listener << lo, hi, callback >> covers address a.
Covers(l, a) == Le32(l[1], a) /\ Le32(a, l[2])

\* How many of the installed listeners of the list run callback and cover a.
Covering(list, callback, a) ==
  Cardinality({ i \in 1 .. Len(list) :
                  list[i][3] = callback /\ Covers(list[i], a) })

\* The callbacks of the installed listeners that cover a, in install order.
CoveringInOrder(list, a) ==
  [i \in 1 .. Len(SelectSeq(list, LAMBDA l : Covers(l, a))) |->
     SelectSeq(list, LAMBDA l : Covers(l, a))[i][3]]

\* What a caller sees of a call: whether it returns, and the word returned.
Seen(res) == << res.hung, res.ret >>

(***************************************************************************)
(* C1.  A ram_get of an address that no ram_set, ram_get_set or ram_init   *)
(* has written returns 0, whether the read created the page or found it.   *)
(***************************************************************************)
C1_UnwrittenReadsZero ==
  (call.op = "ram_get" /\ shadow[call.addr].by = "none")
    => (~ call.hung /\ call.ret = 0)

(***************************************************************************)
(* C2.  After ram_set(a, v), ram_get(a) returns v, also when accesses to   *)
(* other addresses, some creating pages, came in between.                  *)
(***************************************************************************)
C2_SetThenGet ==
  (call.op = "ram_get" /\ shadow[call.addr].by = "ram_set")
    => (~ call.hung /\ call.ret = shadow[call.addr].value)

\* A read of a word set by ram_set, the RAM having got a page since the set.
C2_Witness ==
  /\ Returned("ram_get")
  /\ shadow[call.addr].by = "ram_set"
  /\ ram.page_count > shadow[call.addr].pages

(***************************************************************************)
(* C3.  ram_get_set(a, v) returns the word ram_get(a) would have returned  *)
(* just before it (0 for a never-written address), and after it ram_get(a) *)
(* returns v.                                                              *)
(***************************************************************************)
C3_GetSetReturnsOld ==
  [][Calls("ram_get_set") =>
       /\ ~ call'.hung
       /\ Seen(ram_get(ram, call'.addr)) = << FALSE, call'.ret >>
       /\ shadow[call'.addr].by = "none" => call'.ret = 0
       /\ Seen(ram_get(ram', call'.addr)) = << FALSE, call'.value >>]_vars

(***************************************************************************)
(* C4.  A ram_set or ram_get_set at a leaves what ram_get returns at every *)
(* other address b unchanged, in the page of a and in the other pages.     *)
(***************************************************************************)
C4_WritesAreLocal ==
  [][(Returns("ram_set") \/ Returns("ram_get_set")) =>
       \A b \in Addrs \ { call'.addr } :
         Seen(ram_get(ram', b)) = Seen(ram_get(ram, b))]_vars

(***************************************************************************)
(* C5.  Every ram_get, ram_set, ram_get_set and ram_init call returns:     *)
(* whenever a page is absent, the bucket array has an empty bucket for the *)
(* probe of ht_find to end at.                                             *)
(***************************************************************************)
C5_ProbeFindsEmptyBucket ==
  /\ ~ call.hung
  /\ \A a \in Addrs :
       ht_find(ram.buckets, ram.bucket_count, page_base(ram, a)) # Diverges

(***************************************************************************)
(* C6.  A ram_get or ram_get_set at a runs the callback of each installed  *)
(* read listener once, with argument a, if lo <= a <= hi and not at all    *)
(* otherwise; listeners whose ranges overlap at a all run.                 *)
(***************************************************************************)
C6_ReadListenersFire ==
  call.op \in { "ram_get", "ram_get_set" } =>
    /\ \A cb \in Callbacks :
         Fired(events, "read", cb) = Covering(installs.read, cb, call.addr)
    /\ \A i \in 1 .. Len(events) :
         events[i].kind = "read" => events[i].addr = call.addr

(***************************************************************************)
(* C7.  A ram_set or ram_get_set of v at a runs the callback of each       *)
(* installed write listener once, with arguments (a, v), if lo <= a <= hi  *)
(* and not at all otherwise, the word at a holding v when it runs; ram_get *)
(* runs no write listener and ram_set no read listener.                    *)
(***************************************************************************)
C7_WriteListenersFire ==
  /\ call.op \in { "ram_set", "ram_get_set" } =>
       /\ \A cb \in Callbacks :
            Fired(events, "write", cb)
              = Covering(installs.write, cb, call.addr)
       /\ \A i \in 1 .. Len(events) :
            events[i].kind = "write" =>
              /\ events[i].addr = call.addr
              /\ events[i].value = call.value
              /\ events[i].word = call.value
  /\ call.op = "ram_get" => OfKind(events, "write") = << >>
  /\ call.op = "ram_set" => OfKind(events, "read") = << >>

(***************************************************************************)
(* C8.  Each list holds the listeners in the order of their installation,  *)
(* none merged or dropped, and the callbacks an access runs from a list    *)
(* are those of its matching listeners in that order.                      *)
(***************************************************************************)
C8_InstallOrder ==
  /\ ram.read_listener =
       [i \in 1 .. Len(installs.read) |->
          listener(installs.read[i][1], installs.read[i][2],
                   installs.read[i][3])]
  /\ ram.write_listener =
       [i \in 1 .. Len(installs.write) |->
          listener(installs.write[i][1], installs.write[i][2],
                   installs.write[i][3])]
  /\ OfKind(events, "read") # << >> =>
       CallbacksOf(events, "read") = CoveringInOrder(installs.read, call.addr)
  /\ OfKind(events, "write") # << >> =>
       CallbacksOf(events, "write")
         = CoveringInOrder(installs.write, call.addr)

\* A ram_set that ran two different callbacks.
C8_Witness ==
  /\ Returned("ram_set")
  /\ Len(events) = 2
  /\ events[1].callback # events[2].callback

(***************************************************************************)
(* C9.  In one ram_get_set the read listeners run while the word still     *)
(* holds its old value, then the word is set, then the write listeners     *)
(* run: no write listener runs before a read listener.                     *)
(***************************************************************************)
C9_GetSetOrder ==
  [][Calls("ram_get_set") =>
       \A i \in 1 .. Len(events') :
         /\ events'[i].kind = "read" =>
              events'[i].word = ram_get(ram, call'.addr).ret
         /\ events'[i].kind = "write" =>
              /\ events'[i].word = call'.value
              /\ ram_get(ram', call'.addr).ret = call'.value
         /\ \A j \in 1 .. Len(events') :
              i < j =>
                ~ (events'[i].kind = "write" /\ events'[j].kind = "read")]_vars

\* A ram_get_set that changed the word and ran a read and a write listener.
C9_Witness ==
  /\ Returned("ram_get_set")
  /\ call.ret # call.value
  /\ OfKind(events, "read") # << >>
  /\ OfKind(events, "write") # << >>

(***************************************************************************)
(* C10.  ram_get_set(a, v) does what ram_get(a) followed by ram_set(a, v)  *)
(* does: the same word returned, the same RAM left, the same callbacks run *)
(* with the same arguments in the same order, and it returns exactly when  *)
(* the two calls do.                                                       *)
(***************************************************************************)
\* ram_set(a, v) made after a ram_get(a) of outcome got: it is not made when
\* the ram_get never returns.
ThenSet(got, a, v) == IF got.hung THEN got ELSE ram_set(got.ram, a, v)

\* What the two calls of outcomes got and set did together.
Both(got, set) ==
  IF got.hung THEN got
  ELSE [set EXCEPT !.ret = got.ret, !.events = got.events \o @]

C10_GetSetIsGetThenSet ==
  [][Calls("ram_get_set") =>
       \E got \in { ram_get(ram, call'.addr) } :
         \E set \in { ThenSet(got, call'.addr, call'.value) } :
           \E both \in { Both(got, set) } :
             /\ call'.hung = both.hung
             /\ ~ both.hung =>
                  /\ call'.ret = both.ret
                  /\ ram' = both.ram
                  /\ events' = both.events]_vars

\* A ram_get_set that created the page of its address and ran a read and a
\* write listener.
C10_Witness ==
  /\ Returned("ram_get_set")
  /\ call.created = 1
  /\ OfKind(events, "read") # << >>
  /\ OfKind(events, "write") # << >>

(***************************************************************************)
(* C11.  After ram_init(ram, data, n), ram_get(i) returns data[i] for      *)
(* every i < n, for images of one page, of several pages and of a last     *)
(* page partly filled; and ram_init runs no listener.                      *)
(***************************************************************************)
C11_InitThenGet ==
  call.op \in { "ram_init", "ram_from_file" } =>
    /\ ~ call.hung
    /\ events = << >>
    /\ \A i \in 0 .. call.value - 1 :
         Seen(ram_get(ram, ToAddr(i)))
           = << FALSE, InitData(call.value)[i + 1] >>

(***************************************************************************)
(* C12.  After rom = rom_create(data, n), rom_get(rom, i) returns data[i]  *)
(* for every i < n, and goes on returning it when the caller writes to its *)
(* array: the ROM holds n words of its own, the words data had when the    *)
(* ROM was created, and no step changes them.                              *)
(***************************************************************************)
C12_RomKeepsItsCopy ==
  [][rom' # NoRom =>
       /\ call'.op = "rom_create" => Len(heap'[rom'.data]) = call'.value
       /\ \A i \in 0 .. Len(heap'[rom'.data]) - 1 :
            rom_get(heap', rom', i)
              = IF rom = NoRom THEN heap[CallerData][i + 1]
                ELSE rom_get(heap, rom, i)
       /\ call'.op = "rom_get" =>
            call'.ret = rom_get(heap', rom', ToNat(call'.addr))]_vars

\* A rom_get of a word the caller has changed in its array since rom_create.
C12_Witness ==
  /\ call.op = "rom_get"
  /\ call.ret # heap[CallerData][ToNat(call.addr) + 1]


(***************************************************************************)
(* C13.  For a styled character given to screen_put_character, a colour    *)
(* index 0 gives the SGR code 39 (foreground) and 49 (background), an      *)
(* index i of 1..8 gives 30 + (i - 1) and 40 + (i - 1), an index i of      *)
(* 9..16 gives 90 + (i - 9) and 100 + (i - 9), and an index of 17..31      *)
(* fails an assertion.                                                     *)
(***************************************************************************)
\* The colour indices of a styled character: bits 8..12 and bits 13..17.
FgIndex(styled_char) == (styled_char \div 256) % 32
BgIndex(styled_char) == (styled_char \div 8192) % 32

\* The SGR code of a valid colour index, `normal` being 30 or 40.
SgrOf(i, normal) ==
  IF i = 0 THEN normal + 9
  ELSE IF i <= 8 THEN normal + (i - 1)
  ELSE (normal + 60) + (i - 9)

\* The last call was screen_put_character, of a styled character, at a
\* position of the screen.
PutStyled ==
  /\ call.op = "screen_put_character"
  /\ call.addr[1] < SCREEN_WIDTH
  /\ call.addr[2] < SCREEN_HEIGHT
  /\ call.value \div 128 # 0

C13_ColorCodes ==
  PutStyled =>
    IF FgIndex(call.value) > 16 \/ BgIndex(call.value) > 16
    THEN screen.failed \in { "invalid fg color", "invalid bg color" }
    ELSE /\ screen.failed = "none"
         /\ screen.out[3].cmd = "m"
         /\ screen.out[3].args[2] = SgrOf(FgIndex(call.value), 30)
         /\ screen.out[3].args[3] = SgrOf(BgIndex(call.value), 40)

(***************************************************************************)
(* C14.  Once screen_init_with_ram_mapping(ram) was called, a ram_set or   *)
(* ram_get_set at address a calls screen_ram_write if and only if          *)
(* SCREEN_BASE_ADDR <= a <= SCREEN_BASE_ADDR + SCREEN_SIZE - 1; the        *)
(* character is then put at x = (a - SCREEN_BASE_ADDR) mod SCREEN_WIDTH,   *)
(* y = (a - SCREEN_BASE_ADDR) div SCREEN_WIDTH, and the assertions on the  *)
(* address, on x and on y do not fail.                                     *)
(***************************************************************************)
Mapped ==
  \E k \in 1 .. Len(installs.write) :
    installs.write[k][3] = "screen_ram_write"

InScreen(a) ==
  a[1] = 0 /\ SCREEN_BASE_ADDR <= a[2]
           /\ a[2] <= SCREEN_BASE_ADDR + SCREEN_SIZE - 1

BoundsAssertions ==
  { "addr in the screen memory", "x < SCREEN_WIDTH", "y < SCREEN_HEIGHT" }

Occupied(r) == { k \in 0 .. r.bucket_count - 1 : r.buckets[k + 1].data # NULL }
Pages(r) == { r.buckets[k + 1] : k \in Occupied(r) }
Bases(r) == { r.buckets[k + 1].base_addr : k \in Occupied(r) }

\* The step is a ram_get, ram_set or ram_get_set.
AccessOps == { "ram_get", "ram_set", "ram_get_set" }
Accesses == call'.op \in AccessOps /\ ncalls' # ncalls

\* The step is an access to a page that is absent while every bucket is
\* counted as used.
AccessWhenFull ==
  /\ Accesses
  /\ ram.page_count = ram.bucket_count
  /\ page_base(ram, call'.addr) \notin Bases(ram)

(***************************************************************************)
(* C15.  An access to an absent page made while page_count == bucket_count *)
(* doubles bucket_count, keeps every page with its base address and its    *)
(* words, adds the new page and returns; page_count has grown by one and   *)
(* every address written before still reads the word last written to it.   *)
(***************************************************************************)
C15_GrowsWhenFull ==
  [][AccessWhenFull =>
       /\ ~ call'.hung
       /\ ram'.bucket_count = 2 * ram.bucket_count
       /\ ram'.page_count = ram.page_count + 1
       /\ Pages(ram) \subseteq Pages(ram')
       /\ Bases(ram') = Bases(ram) \cup { page_base(ram, call'.addr) }
       /\ \A a \in Addrs :
            (shadow[a].by # "none" /\ a # call'.addr) =>
              Seen(ram_get(ram', a)) = << FALSE, shadow[a].value >>]_vars

(***************************************************************************)
(* C16.  When the creation of a page makes the bucket array grow, the page *)
(* is stored in the bucket that ht_find gives for its base address in the  *)
(* new array: not at an index computed in the old array, and not in a      *)
(* bucket that holds a reinserted page.                                    *)
(***************************************************************************)
C16_IndexInNewTable ==
  [][AccessWhenFull =>
       /\ ~ call'.hung
       /\ ram'.bucket_count # ram.bucket_count
       /\ \E k \in { ht_find(ram'.buckets, ram'.bucket_count,
                               page_base(ram, call'.addr)) } :
            /\ k # Diverges
            /\ ram'.buckets[k + 1].data # NULL
            /\ ram'.buckets[k + 1].base_addr = page_base(ram, call'.addr)
       /\ Cardinality(Occupied(ram')) = Cardinality(Occupied(ram)) + 1]_vars

(***************************************************************************)
(* C17.  In every state, for every occupied bucket, ht_find of its base    *)
(* address returns the index of that bucket: no empty bucket lies on the   *)
(* probe path from the home bucket of a page to the bucket it occupies.    *)
(***************************************************************************)
\* The bucket at which the probe for base_addr starts.
Home(r, base_addr) ==
  ToNat(And32(hash(base_addr), Dec32(ToAddr(r.bucket_count))))

C17_FindReturnsSlot ==
  \A k \in Occupied(ram) :
    ht_find(ram.buckets, ram.bucket_count, ram.buckets[k + 1].base_addr) = k

\* A page created by an access lies away from its home bucket.
C17_Witness ==
  /\ call.op \in AccessOps
  /\ call.created = 1
  /\ \E k \in Occupied(ram) :
       /\ ram.buckets[k + 1].base_addr = page_base(ram, call.addr)
       /\ Home(ram, ram.buckets[k + 1].base_addr) # k

(***************************************************************************)
(* C18.  In every state bucket_count is a power of two, at least 64 (64    *)
(* right after ram_create), and page_count <= bucket_count; no step makes  *)
(* bucket_count smaller.                                                   *)
(***************************************************************************)
RECURSIVE IsPowerOfTwo(_)
IsPowerOfTwo(n) ==
  IF n <= 1 THEN n = 1 ELSE n % 2 = 0 /\ IsPowerOfTwo(n \div 2)

BucketCountShape ==
  /\ IsPowerOfTwo(ram.bucket_count)
  /\ ram.bucket_count >= INITIAL_RAM_HT_SIZE
  /\ call.op = "ram_create" => ram.bucket_count = INITIAL_RAM_HT_SIZE
  /\ ram.page_count <= ram.bucket_count
  /\ Len(ram.buckets) = ram.bucket_count

C18_BucketCount ==
  [] BucketCountShape /\ [][ram'.bucket_count >= ram.bucket_count]_vars

\* An access has created the page that fills the last bucket.
C18_Witness ==
  /\ call.op \in AccessOps
  /\ call.created = 1
  /\ ram.page_count = ram.bucket_count

(***************************************************************************)
(* C19.  No step removes a page; the pages are the page of address 0 and   *)
(* the pages of the addresses given to ram_get, ram_set and ram_get_set or *)
(* covered by ram_init; an access creates at most one page, and only when  *)
(* the page of its address was absent.                                     *)
(***************************************************************************)
\* The base addresses of the pages ram_init covers with data_len words.
Covered(r, data_len) ==
  { ToAddr(j * r.page_size) :
      j \in 0 .. ((data_len + r.page_size - 1) \div r.page_size) - 1 }

\* The base addresses of the pages the call is about.
Touched(r, c) ==
  IF c.op \in AccessOps THEN { page_base(r, c.addr) }
  ELSE IF c.op \in { "ram_init", "ram_from_file" } THEN Covered(r, c.value)
  ELSE { }

C19_PagesAreThoseTouched ==
  /\ Bases(ram) = { << 0, 0 >> } \cup Touched(ram, call)
  /\ [][/\ Bases(ram) \subseteq Bases(ram')
        /\ ncalls' # ncalls =>
             Bases(ram') = Bases(ram) \cup Touched(ram, call')
        /\ Accesses =>
             call'.created
               = (IF page_base(ram, call'.addr) \in Bases(ram) THEN 0 ELSE 1)]_vars

(***************************************************************************)
(* C20.  Right after ram_create the RAM holds one page, of base address 0  *)
(* and of page_size zero words, page_count is 1 and both listener lists    *)
(* are empty; a ram_get of an address below page_size then returns 0 and   *)
(* creates no page.                                                        *)
(***************************************************************************)
C20_FreshRam ==
  call.op = "ram_create" =>
    /\ Pages(ram) = { [base_addr |-> << 0, 0 >>,
                       data |-> ZeroPage(ram.page_size)] }
    /\ Cardinality(Occupied(ram)) = 1
    /\ ram.page_count = 1
    /\ ram.read_listener = << >>
    /\ ram.write_listener = << >>
    /\ \A a \in { 0, ram.page_size \div 2, ram.page_size - 1 } :
         \E got \in { ram_get(ram, ToAddr(a)) } :
           /\ Seen(got) = << FALSE, 0 >>
           /\ got.ram = ram
           /\ got.events = << >>

C20_Witness ==
  /\ call.op = "ram_create"
  /\ ncalls = 0
  /\ ram.page_size > 1


(***************************************************************************)
(* C21.  For every address, 0 and 2^32 - 1 and the two sides of a page     *)
(* boundary included, the base address a & ~(page_size - 1) is a multiple  *)
(* of page_size not above a, and the offset a - base is below page_size;   *)
(* an access that returns has used a page of page_size words with that     *)
(* base address; the last word of a page and the first word of the next    *)
(* page each keep the word written to them.                                *)
(***************************************************************************)
\* The offset of a in its page, as a 32-bit number.
Offset(r, a) == Sub32(a, page_base(r, a))

BaseAndOffset(r, a) ==
  /\ Le32(page_base(r, a), a)
  /\ page_base(r, a)[1] = a[1]
  /\ page_base(r, a)[2] % r.page_size = 0
  /\ Offset(r, a)[1] = 0
  /\ Offset(r, a)[2] < r.page_size

\* The page of base address b is in the store, with page_size words.
HasPage(r, b) ==
  \E k \in Occupied(r) :
    /\ r.buckets[k + 1].base_addr = b
    /\ Len(r.buckets[k + 1].data) = r.page_size

\* The address holds the word last written to it.
Keeps(a) ==
  shadow[a].by # "none" =>
    Seen(ram_get(ram, a)) = << FALSE, shadow[a].value >>

C21_BaseAndOffset ==
  /\ \A a \in Addrs : BaseAndOffset(ram, a)
  /\ (call.op \in AccessOps /\ ~ call.hung) =>
       HasPage(ram, page_base(ram, call.addr))
  /\ (shadow[ToAddr(P - 1)].by # "none" /\ shadow[ToAddr(P)].by # "none") =>
       Keeps(ToAddr(P - 1)) /\ Keeps(ToAddr(P))

\* Both sides of the page boundary hold different words, and 2^32 - 1 was
\* accessed.
C21_Witness ==
  /\ shadow[ToAddr(P - 1)].by # "none"
  /\ shadow[ToAddr(P)].by # "none"
  /\ shadow[ToAddr(P - 1)].value # shadow[ToAddr(P)].value
  /\ call.op \in AccessOps
  /\ call.addr = MaxAddr
  /\ ~ call.hung


(***************************************************************************)
(* C22.  screen_put_character of a word in which only the 7-bit character  *)
(* code is set prints no SGR command, neither ESC[0;fg;bg...m before the   *)
(* character nor ESC[0m after it: it prints save cursor, cursor position,  *)
(* the character and restore cursor, and nothing else.                     *)
(***************************************************************************)
\* The last call was screen_put_character, of a plain character, at a
\* position of the screen.
PutPlain ==
  /\ call.op = "screen_put_character"
  /\ call.addr[1] < SCREEN_WIDTH
  /\ call.addr[2] < SCREEN_HEIGHT
  /\ call.value \div 128 = 0

C22_PlainPrintsNoSgr ==
  PutPlain =>
    /\ screen.failed = "none"
    /\ \A i \in 1 .. Len(screen.out) : screen.out[i].cmd # "m"
    /\ screen.out
         = << Command("s", << >>),
              Command("H", << call.addr[2] + 1, call.addr[1] + 1 >>),
              Command("putchar", << call.value >>),
              Command("u", << >>) >>


(***************************************************************************)
(* C23.  The writes of RamTest.many_access on a fresh RAM of 1024-word     *)
(* pages and 64 buckets leave 37 pages; every ram_get(i) of the sequence   *)
(* returns i.  As stated, the writes make the store rehash at least twice: *)
(* bucket_count is at least 256 when they are done.  As amended, they make *)
(* no rehash: bucket_count is 64 in every state.                           *)
(***************************************************************************)
\* Every write of the first loop has been made.
ManyWritten == ManyIndex(ncalls) >= ManyLimit

\* The reads return what was written.
ManyReads ==
  call.op = "ram_get" => ~ call.hung /\ call.ret = ToNat(call.addr)

C23_ManyAccessRehashes ==
  /\ ManyReads
  /\ ManyWritten =>
       /\ ram.page_count \in 36 .. 38
       /\ ram.bucket_count >= 4 * INITIAL_RAM_HT_SIZE

C23_ManyAccessNoRehash ==
  /\ ManyReads
  /\ ~ call.hung
  /\ ram.bucket_count = INITIAL_RAM_HT_SIZE
  /\ ram.page_count = (IF ncalls = 0 THEN 1 ELSE ncalls)
  /\ Cardinality(Occupied(ram)) = ram.page_count
  /\ ManyWritten => ram.page_count = 37

\* The last address written is read back once all the writes are made.
C23_Witness ==
  /\ ManyWritten
  /\ call.op = "ram_get"
  /\ ManyIndex(ncalls - 1) = ToNat(call.addr)
  /\ call.ret = ManyIndex(ncalls - 1)


(***************************************************************************)
(* C24.  In every state the page of base address 0 is in a bucket, so the  *)
(* test buckets[index].base_addr == base_addr of get_ram_page never takes  *)
(* an empty bucket, whose base_addr is 0, for the page: the page that      *)
(* get_ram_page returns has the base address asked for and an allocated    *)
(* array of words.                                                         *)
(***************************************************************************)
\* What get_ram_page returned designates an allocated page of that base.
Allocated(page, base_addr) ==
  /\ page.ram.buckets[page.index + 1].data # NULL
  /\ page.ram.buckets[page.index + 1].base_addr = base_addr

C24_PageZeroExists ==
  /\ << 0, 0 >> \in Bases(ram)
  /\ \A a \in Addrs :
       \E page \in { get_ram_page(ram, a) } :
         ~ page.hung => Allocated(page, page_base(ram, a))

\* An access to page 0 returned while some bucket is empty.
C24_Witness ==
  /\ call.op \in AccessOps
  /\ page_base(ram, call.addr) = << 0, 0 >>
  /\ ~ call.hung
  /\ Cardinality(Occupied(ram)) < ram.bucket_count


(***************************************************************************)
(* C25.  In every state no two occupied buckets hold the same base         *)
(* address; an access to an address whose page exists returns, finds that  *)
(* page and creates none.                                                  *)
(***************************************************************************)
NoTwin ==
  \A j, k \in Occupied(ram) :
    ram.buckets[j + 1].base_addr = ram.buckets[k + 1].base_addr => j = k

FindsExisting ==
  (Accesses /\ page_base(ram, call'.addr) \in Bases(ram)) =>
    /\ ~ call'.hung
    /\ call'.created = 0
    /\ Occupied(ram') = Occupied(ram)
    /\ Bases(ram') = Bases(ram)

C25_OnePagePerBase == [] NoTwin /\ [][FindsExisting]_vars

\* A page other than page 0 was accessed again while every bucket is used.
C25_Witness ==
  /\ call.op \in AccessOps
  /\ page_base(ram, call.addr) # << 0, 0 >>
  /\ ~ call.hung
  /\ call.created = 0
  /\ Cardinality(Occupied(ram)) = ram.bucket_count

(***************************************************************************)
(* C26.  In every state page_count is the number of occupied buckets: 1    *)
(* after ram_create, one more at each page creation, unchanged by an       *)
(* access that finds its page.                                             *)
(***************************************************************************)
Counted == ram.page_count = Cardinality(Occupied(ram))

CountsCreations ==
  /\ ram'.page_count = ram.page_count + Cardinality(Bases(ram') \ Bases(ram))
  /\ Accesses =>
       ram'.page_count
         = ram.page_count
             + (IF page_base(ram, call'.addr) \in Bases(ram) \/ call'.hung
                THEN 0 ELSE 1)

C26_PageCount ==
  /\ call.op = "ram_create" => ram.page_count = 1
  /\ [] Counted
  /\ [][CountsCreations]_vars

\* An access created a page on a RAM that had pages beside page 0.
C26_Witness ==
  /\ call.op \in AccessOps
  /\ call.created = 1
  /\ ram.page_count > 2
  /\ Counted

=============================================================================
